---- MODULE Spec2Model ----
(***************************************************************************)
(* Model of the legacy fetch request engine (core/fetch/request.hbs):      *)
(* one call of request(config, options) as a state machine whose steps are *)
(* the executor's stretches between two awaits, together with the          *)
(* environment that can interleave at an await: the consumer cancelling    *)
(* the task, the transport settling, and registrations on the response     *)
(* interceptor registry (Spec); and of createClient, the generator's entry *)
(* point, in its current and its older form, as the steps between its      *)
(* awaits (ClientSpec).                                                    *)
(***************************************************************************)
EXTENDS Integers, Sequences, FiniteSets, TLC

\* ------------------------------------------------------------------ bounds
\* longest registry a registration made during the call may produce
MaxFns == 2
\* registrations / removals made while the call is in flight
MaxRegOps == 1

VARIABLES
    pc,             \* position of the executor: the await it is suspended at
    options,        \* ApiRequestOptions of the call, and the services.response mode
    fns,            \* config.interceptors.response._fns
    iter,           \* the array the for-of loop of the executor iterates
    idx,            \* index in iter of the interceptor being awaited
    response,       \* the executor's local `response`
    responseBody,   \* the executor's local `responseBody`
    task,           \* the CancelablePromise: state and settled value
    cancelHandlers, \* number of cleanup callbacks registered through onCancel
    abortCalls,     \* number of times a cleanup callback (controller.abort) ran
    log,            \* calls made by the executor, in order
    hist,           \* history: what the environment did, what was thrown
    entry,          \* which createClient runs: the current one or the older one
    deps,           \* the installed dependencies createClient reads
    userConfig,     \* the UserConfig handed to createClient
    fileConfig,     \* the configuration loadConfig finds in a file
    config,         \* the Config initConfig / getConfig produce
    cpc,            \* position of createClient: the await it is suspended at
    clog,           \* collaborators and processes createClient has invoked
    cresult         \* outcome of createClient: none, client, or the error

engineVars == <<pc, options, fns, iter, idx, response, responseBody, task,
                cancelHandlers, abortCalls, log, hist>>
clientVars == <<entry, deps, userConfig, fileConfig, config, cpc, clog, cresult>>
vars == <<pc, options, fns, iter, idx, response, responseBody, task,
          cancelHandlers, abortCalls, log, hist,
          entry, deps, userConfig, fileConfig, config, cpc, clog, cresult>>

\* ------------------------------------------------------------------ values
Undefined == <<"undefined">>
NoResponse == [status |-> 0, ok |-> FALSE, statusText |-> "", body |-> <<>>, hasHeader |-> FALSE]
NoValue == [kind |-> "none"]
Url == "url"

\* a thrown Error that is not an ApiError
Err(name) == [kind |-> name]

\* user supplied response interceptors: Middleware<Response> functions
Fns == {"tagA", "tagB", "notOk", "throws"}
Throws(fn) == fn = "throws"
ApplyFn(fn, r) ==
    CASE fn = "tagA" -> [r EXCEPT !.body = Append(@, "A")]
      [] fn = "tagB" -> [r EXCEPT !.body = Append(@, "B")]
      [] fn = "notOk" -> [r EXCEPT !.ok = FALSE, !.status = 500, !.statusText = "Internal Server Error"]
      [] OTHER -> r

Statuses == {200, 404, 500}
StatusText(s) ==
    CASE s = 200 -> "OK"
      [] s = 404 -> "Not Found"
      [] OTHER -> "Internal Server Error"
\* Response.ok of the fetch transport: a 2xx status
TransportResponse(s, h) ==
    [status |-> s, ok |-> (s >= 200 /\ s <= 299), statusText |-> StatusText(s),
     body |-> <<"raw">>, hasHeader |-> h]

\* options.errors: the classifier's ordered rule table
Rule(lo, hi, msg) == [lo |-> lo, hi |-> hi, message |-> msg]
RuleTables ==
    { <<>>,
      <<Rule(404, 404, "Not Found"), Rule(400, 499, "Client Error")>> }

OptionSet ==
    [responseHeader : BOOLEAN, responseTransformer : BOOLEAN,
     errors : RuleTables, mode : {"body", "response"}]

\* the registries a call can start with: none, one or two interceptors
\* registered, in any order, the same one twice included
InitialRegistries ==
    { <<>> } \cup { <<f>> : f \in Fns } \cup { <<f, g>> : f \in Fns, g \in Fns }

\* ------------------------------------------------- CancelablePromise (task)
TaskResolve(t, v) ==
    IF t.state = "pending" THEN [state |-> "resolved", value |-> v] ELSE t
\* mutant of TaskReject: reject settles the task whatever its state
TaskRejectAnyState(t, e) == [state |-> "rejected", value |-> e]
TaskReject(t, e) ==
    IF t.state = "pending" THEN [state |-> "rejected", value |-> e] ELSE t
TaskCancel(t) ==
    IF t.state = "pending" THEN [state |-> "cancelled", value |-> NoValue] ELSE t
\* onCancel.isCancelled
IsCancelled == task.state = "cancelled"

\* ------------------------------------------------- transport (sendRequest)
\* sendRequest registers its abort callback: onCancel(() => controller.abort())
RegisterAbort(handlers) == handlers + 1
\* an aborted transport call does not answer any more
TransportCanAnswer == abortCalls = 0
\* what a failing transport call rejects with
TransportError == IF abortCalls > 0 THEN Err("AbortError") ELSE Err("NetworkError")

\* ------------------------------------------------- interceptor registry
\* Interceptors.use / Interceptors.eject
RegistryUse(reg, fn) == Append(reg, fn)
RECURSIVE IndexOf(_, _, _)
IndexOf(reg, fn, i) ==
    IF i > Len(reg) THEN 0
    ELSE IF reg[i] = fn THEN i ELSE IndexOf(reg, fn, i + 1)
RegistryEject(reg, fn) ==
    LET i == IndexOf(reg, fn, 1)
    IN IF i = 0 THEN reg
       ELSE SubSeq(reg, 1, i - 1) \o SubSeq(reg, i + 1, Len(reg))

\* ------------------------------------------------- helpers of the executor
\* getResponseBody: the body parsed according to its content type
GetResponseBody(r) == <<"parsed">> \o r.body
\* getResponseHeader(response, options.responseHeader)
GetResponseHeader(r, designated) ==
    IF designated /\ r.hasHeader THEN <<"header-value">> ELSE Undefined
\* options.responseTransformer
Transform(b) == <<"transformed">> \o b
\* a ?? b
Coalesce(a, b) == IF a = Undefined THEN b ELSE a

\* new ApiError(options, result, message)
ApiError(result, msg) ==
    [kind |-> "ApiError", url |-> result.url, status |-> result.status,
     statusText |-> result.statusText, body |-> result.body, message |-> msg]
GenericMessage == "Generic Error"

RECURSIVE FirstMatch(_, _, _)
FirstMatch(rules, status, i) ==
    IF i > Len(rules) THEN 0
    ELSE IF rules[i].lo <= status /\ status <= rules[i].hi THEN i
    ELSE FirstMatch(rules, status, i + 1)

\* catchErrorCodes(options, result): the thrown ApiError, or NoValue
CatchErrorCodes(opts, result) ==
    LET m == FirstMatch(opts.errors, result.status, 1)
    IN IF m # 0 THEN ApiError(result, opts.errors[m].message)
       ELSE IF ~result.ok THEN ApiError(result, GenericMessage)
       ELSE NoValue

\* events of the log
Ev(op) == [op |-> op]
EvArg(op, arg) == [op |-> op, arg |-> arg]
CountOp(l, op) == Len(SelectSeq(l, LAMBDA e : e.op = op))
ArgsOf(l, op) ==
    LET calls == SelectSeq(l, LAMBDA e : e.op = op)
    IN [i \in 1..Len(calls) |-> calls[i].arg]

\* mutant of DispatchAllowed: the pre-dispatch check is left out
DispatchAlways == TRUE

\* line 73: the pre-dispatch check
DispatchAllowed == ~IsCancelled

\* mutant of ChainArray: the loop reads config.interceptors.response._fns
\* again at every step
ChainArrayLive == fns

\* line 76: the array the for-of loop reads its next element from
ChainArray == iter

\* mutant of ChainInput: every interceptor is handed the transport's response
ChainInputOriginal == hist.r0

\* line 77: the argument handed to the interceptor
ChainInput == response

\* mutant of ShouldTransform: response.ok is not looked at
ShouldTransformAlways == options.responseTransformer

\* line 84: the guard of the response transformer
ShouldTransform == options.responseTransformer /\ response.ok

\* mutant of ResultBody: the designated header is ignored
ResultBodyNoHeader(responseHeader, transformedBody) == transformedBody

\* line 93: the body of the ApiResult
ResultBody(responseHeader, transformedBody) == Coalesce(responseHeader, transformedBody)

\* lines 88-94
ApiResult(transformedBody) ==
    [kind |-> "ApiResult", url |-> Url, ok |-> response.ok, status |-> response.status,
     statusText |-> response.statusText,
     body |-> ResultBody(GetResponseHeader(response, options.responseHeader), transformedBody)]

\* line 98: resolve(result.body) or resolve(result), per services.response
ResolveValue(result) ==
    IF options.mode = "body" THEN [kind |-> "body", body |-> result.body] ELSE result

\* mutant of Caught: the catch block rejects with an error of its own
CaughtGeneric(error) == Err("Error")

\* line 101: the value the catch block hands to reject
Caught(error) == error

\* mutant of Outcome: resolve is called before the classifier runs
OutcomeResolveFirst(result) ==
    LET thrown == CatchErrorCodes(options, result)
    IN IF thrown # NoValue
       THEN <<EvArg("resolve", ResolveValue(result)), EvArg("catchErrorCodes", result),
              EvArg("reject", thrown)>>
       ELSE <<EvArg("resolve", ResolveValue(result)), EvArg("catchErrorCodes", result)>>

\* mutant of Outcome: what the classifier throws is swallowed
OutcomeUnclassified(result) ==
    <<EvArg("catchErrorCodes", result), EvArg("resolve", ResolveValue(result))>>

\* lines 96-102: classify, then resolve, or reject what the classifier threw
Outcome(result) ==
    LET thrown == CatchErrorCodes(options, result)
    IN IF thrown # NoValue
       THEN <<EvArg("catchErrorCodes", result), EvArg("reject", Caught(thrown))>>
       ELSE <<EvArg("catchErrorCodes", result), EvArg("resolve", ResolveValue(result))>>

RECURSIVE Settle(_, _)
Settle(t, events) ==
    IF events = <<>> THEN t
    ELSE LET e == Head(events)
             t2 == CASE e.op = "resolve" -> TaskResolve(t, e.arg)
                     [] e.op = "reject" -> TaskReject(t, e.arg)
                     [] OTHER -> t
         IN Settle(t2, Tail(events))

\* ------------------------------------------------------------------ Init
EngineInit ==
    /\ pc = "idle"
    /\ options \in OptionSet
    /\ fns \in InitialRegistries
    /\ iter = <<>>
    /\ idx = 0
    /\ response = NoResponse
    /\ responseBody = Undefined
    /\ task = [state |-> "pending", value |-> NoValue]
    /\ cancelHandlers = 0
    /\ abortCalls = 0
    /\ log = <<>>
    /\ hist = [cancelPc |-> "none", cancelNoop |-> FALSE, regOps |-> 0, r0 |-> NoResponse,
               thrown |-> NoValue, thrownAt |-> "none", invokedAtThrow |-> 0,
               cancelledAtCheck |-> FALSE, registry |-> <<>>, regPc |-> "none"]

\* ------------------------------------------------------------------ steps
\* the catch block: reject(error), and the executor ends
Catch(error, at) ==
    /\ log' = Append(log, EvArg("reject", Caught(error)))
    /\ task' = TaskReject(task, Caught(error))
    /\ hist' = [hist EXCEPT !.thrown = error, !.thrownAt = at,
                            !.invokedAtThrow = CountOp(log, "fn")]
    /\ pc' = "done"

\* lines 65-71: the executor runs up to `await getHeaders(config, options)`
Request ==
    /\ pc = "idle"
    /\ pc' = "headers"
    /\ UNCHANGED <<options, fns, iter, idx, response, responseBody, task,
                   cancelHandlers, abortCalls, log, hist>>
    /\ UNCHANGED clientVars

\* lines 71-74: getHeaders resolved; the pre-dispatch check; sendRequest is
\* called, which registers its abort callback through onCancel
HeadersResolved ==
    /\ pc = "headers"
    /\ IF DispatchAllowed
       THEN /\ log' = Append(log, Ev("sendRequest"))
            /\ cancelHandlers' = RegisterAbort(cancelHandlers)
            /\ pc' = "send"
            /\ hist' = hist
       ELSE /\ pc' = "done"
            /\ hist' = [hist EXCEPT !.cancelledAtCheck = TRUE]
            /\ UNCHANGED <<log, cancelHandlers>>
    /\ UNCHANGED <<options, fns, iter, idx, response, responseBody, task, abortCalls>>
    /\ UNCHANGED clientVars

\* lines 71, 100-102: a header resolver threw
HeadersRejected ==
    /\ pc = "headers"
    /\ Catch(Err("HeadersError"), "headers")
    /\ UNCHANGED <<options, fns, iter, idx, response, responseBody,
                   cancelHandlers, abortCalls>>
    /\ UNCHANGED clientVars

\* lines 76-80: the loop's next step once `response` holds r: call the next
\* interceptor of the array, or leave the loop and call getResponseBody
LoopStep(i) ==
    IF i <= Len(ChainArray')
    THEN /\ idx' = i
         /\ log' = Append(log, EvArg("fn", ChainArray'[i]))
         /\ pc' = "fn"
    ELSE /\ idx' = i
         /\ log' = Append(log, Ev("getResponseBody"))
         /\ pc' = "body"

\* lines 74-78: the transport answered; the for-of loop starts on _fns
SendResolved(s, h) ==
    /\ pc = "send"
    /\ TransportCanAnswer
    /\ response' = TransportResponse(s, h)
    /\ iter' = fns
    /\ fns' = fns
    /\ hist' = [hist EXCEPT !.r0 = TransportResponse(s, h), !.registry = fns]
    /\ LoopStep(1)
    /\ UNCHANGED <<options, responseBody, task, cancelHandlers, abortCalls>>
    /\ UNCHANGED clientVars

\* lines 74, 100-102: the transport failed (network error, or aborted)
SendRejected ==
    /\ pc = "send"
    /\ Catch(TransportError, "send")
    /\ UNCHANGED <<options, fns, iter, idx, response, responseBody,
                   cancelHandlers, abortCalls>>
    /\ UNCHANGED clientVars

\* line 77: the awaited interceptor returned
FnResolved ==
    /\ pc = "fn"
    /\ LET fn == log[Len(log)].arg
       IN /\ ~Throws(fn)
          /\ response' = ApplyFn(fn, ChainInput)
    /\ UNCHANGED <<iter, fns>>
    /\ LoopStep(idx + 1)
    /\ UNCHANGED <<options, responseBody, task, cancelHandlers, abortCalls, hist>>
    /\ UNCHANGED clientVars

\* lines 77, 100-102: the awaited interceptor threw
FnRejected ==
    /\ pc = "fn"
    /\ Throws(log[Len(log)].arg)
    /\ Catch(Err("InterceptorError"), "fn")
    /\ UNCHANGED <<options, fns, iter, idx, response, responseBody,
                   cancelHandlers, abortCalls>>
    /\ UNCHANGED clientVars

\* lines 88-102: build the ApiResult, classify, settle
Finalize(transformedBody) ==
    LET events == Outcome(ApiResult(transformedBody))
    IN /\ log' = log \o events
       /\ task' = Settle(task, events)
       /\ pc' = "done"

\* lines 80-86 (and 88-102 without a transformer): the body was extracted
BodyExtracted ==
    /\ pc = "body"
    /\ responseBody' = GetResponseBody(response)
    /\ IF ShouldTransform
       THEN /\ log' = Append(log, Ev("responseTransformer"))
            /\ pc' = "transform"
            /\ task' = task
       ELSE Finalize(GetResponseBody(response))
    /\ UNCHANGED <<options, fns, iter, idx, response, cancelHandlers, abortCalls, hist>>
    /\ UNCHANGED clientVars

\* lines 85-102: the transformer returned
TransformResolved ==
    /\ pc = "transform"
    /\ Finalize(Transform(responseBody))
    /\ UNCHANGED <<options, fns, iter, idx, response, responseBody,
                   cancelHandlers, abortCalls, hist>>
    /\ UNCHANGED clientVars

\* lines 85, 100-102: the transformer threw
TransformRejected ==
    /\ pc = "transform"
    /\ Catch(Err("TransformError"), "transform")
    /\ UNCHANGED <<options, fns, iter, idx, response, responseBody,
                   cancelHandlers, abortCalls>>
    /\ UNCHANGED clientVars

\* ------------------------------------------------------------ environment
\* task.cancel(): from pending, the task becomes cancelled and every cleanup
\* callback runs once; otherwise nothing happens (hist notes that such a call
\* was made)
Cancel ==
    /\ pc # "idle"
    /\ task' = TaskCancel(task)
    /\ IF task.state = "pending"
       THEN /\ abortCalls' = abortCalls + cancelHandlers
            /\ cancelHandlers' = 0
            /\ hist' = [hist EXCEPT !.cancelPc = pc]
       ELSE /\ UNCHANGED <<abortCalls, cancelHandlers>>
            /\ hist' = [hist EXCEPT !.cancelNoop = TRUE]
    /\ UNCHANGED <<pc, options, fns, iter, idx, response, responseBody, log>>
    /\ UNCHANGED clientVars

\* config.interceptors.response.use(fn) while the call is in flight: before its
\* interceptor chain begins (sendRequest pending) or while the chain runs
Use(fn) ==
    /\ pc \in {"send", "fn"}
    /\ hist.regOps < MaxRegOps
    /\ Len(fns) < MaxFns
    /\ fns' = RegistryUse(fns, fn)
    /\ hist' = [hist EXCEPT !.regOps = @ + 1, !.regPc = pc]
    /\ UNCHANGED <<pc, options, iter, idx, response, responseBody, task,
                   cancelHandlers, abortCalls, log>>
    /\ UNCHANGED clientVars

\* config.interceptors.response.eject(fn) while the call is in flight: before its
\* interceptor chain begins (sendRequest pending) or while the chain runs
Eject(fn) ==
    /\ pc \in {"send", "fn"}
    /\ hist.regOps < MaxRegOps
    /\ IndexOf(fns, fn, 1) # 0
    /\ fns' = RegistryEject(fns, fn)
    /\ hist' = [hist EXCEPT !.regOps = @ + 1, !.regPc = pc]
    /\ UNCHANGED <<pc, options, iter, idx, response, responseBody, task,
                   cancelHandlers, abortCalls, log>>
    /\ UNCHANGED clientVars

\* ------------------------------------------------------------ createClient
Packages == {"typescript", "prettier", "eslint", "@biomejs/biome"}
NoConfig == [input |-> "absent", output |-> "absent", write |-> FALSE,
             format |-> "off", lint |-> "off"]

\* the UserConfig values each entry point accepts; in the current one format
\* and lint are fields of the output object, so they come with its path
UserConfigs(e) ==
    IF e = "current"
    THEN { c \in [input : {"absent", "path", "object"}, output : {"absent", "out"},
                  write : BOOLEAN, format : {"absent", "off", "prettier", "biome"},
                  lint : {"absent", "off", "eslint", "biome"}] :
             c.output = "absent" => (c.format = "absent" /\ c.lint = "absent") }
    ELSE [input : {"absent", "path", "object"}, output : {"absent", "out", "outside"},
          write : BOOLEAN, format : {"absent", "off", "on"}, lint : {"absent", "off", "on"}]
FileConfigs ==
    { [input |-> "absent", output |-> "absent"], [input |-> "path", output |-> "out"] }

\* { ...userConfigFromFile, ...userConfig }
Merged(file, user) ==
    [user EXCEPT !.input = IF @ = "absent" THEN file.input ELSE @,
                 !.output = IF @ = "absent" THEN file.output ELSE @]

\* mutant of TypeScriptInstalled: the dependency check is left out
TypeScriptAssumed == TRUE

\* current entry point: if (!dependencies.typescript) throw
TypeScriptInstalled == "typescript" \in deps

\* if (!input) throw
InputMissing(m) == m.input = "absent"
\* if (!output.path) throw / if (!userConfig.output) throw
OutputMissing(m) == m.output = "absent"
\* older entry point: if (!isSubDirectory(process.cwd(), userConfig.output)) throw
OutputOutside(m) == entry = "older" /\ m.output = "outside"

\* the defaults of getOutput (current) and of getConfig's destructuring (older)
Resolved(m) ==
    IF entry = "current"
    THEN [m EXCEPT !.format = IF @ = "absent" THEN "off" ELSE @,
                   !.lint = IF @ = "absent" THEN "off" ELSE @]
    ELSE [m EXCEPT !.format = IF @ = "absent" THEN "on" ELSE @,
                   !.lint = IF @ = "absent" THEN "off" ELSE @]

\* processOutput: the formatter, then the linter, each if configured and if
\* its package is installed
Formatter(c) ==
    IF entry = "current"
    THEN CASE c.format = "prettier" /\ "prettier" \in deps -> <<"format:prettier">>
           [] c.format = "biome" /\ "@biomejs/biome" \in deps -> <<"format:biome">>
           [] OTHER -> <<>>
    ELSE IF c.format = "on" /\ "prettier" \in deps THEN <<"format:prettier">> ELSE <<>>
Linter(c) ==
    IF entry = "current"
    THEN CASE c.lint = "eslint" /\ "eslint" \in deps -> <<"lint:eslint">>
           [] c.lint = "biome" /\ "@biomejs/biome" \in deps -> <<"lint:biome">>
           [] OTHER -> <<>>
    ELSE IF c.lint = "on" /\ "eslint" \in deps THEN <<"lint:eslint">> ELSE <<>>
ProcessOutput(c) == Formatter(c) \o Linter(c)

ClientIdle ==
    /\ entry = "current"
    /\ deps = {}
    /\ userConfig = NoConfig
    /\ fileConfig = [input |-> "absent", output |-> "absent"]
    /\ config = NoConfig
    /\ cpc = "idle"
    /\ clog = <<>>
    /\ cresult = "none"

ClientInit ==
    /\ entry \in {"current", "older"}
    /\ deps \in SUBSET Packages
    /\ userConfig \in UserConfigs(entry)
    /\ fileConfig \in FileConfigs
    /\ config = NoConfig
    /\ cpc = "idle"
    /\ clog = <<>>
    /\ cresult = "none"

\* createClient throws: the promise it returned rejects
Fail(msg) ==
    /\ cresult' = msg
    /\ cpc' = "failed"

\* createClient up to its first await: the dependencies are read, the current
\* entry point checks for TypeScript, then initConfig / getConfig call loadConfig
CreateClient ==
    /\ cpc = "idle"
    /\ IF entry = "current" /\ ~TypeScriptInstalled
       THEN /\ Fail("dependency missing")
            /\ clog' = clog
       ELSE /\ clog' = Append(clog, "loadConfig")
            /\ cpc' = "config"
            /\ cresult' = cresult
    /\ UNCHANGED <<entry, deps, userConfig, fileConfig, config>>
    /\ UNCHANGED engineVars

\* mutant of Generate: config.dryRun / config.write is not looked at
GenerateAlwaysWrites(log0) ==
    /\ clog' = log0 \o <<"parse", "writeClient">>
    /\ cpc' = "write"
    /\ cresult' = cresult

\* parse and postProcessClient, then writeClient unless writing is disabled
Generate(log0) ==
    IF config'.write
    THEN /\ clog' = log0 \o <<"parse", "writeClient">>
         /\ cpc' = "write"
         /\ cresult' = cresult
    ELSE /\ clog' = Append(log0, "parse")
         /\ cpc' = "done"
         /\ cresult' = "client"

\* loadConfig resolved: the configuration is merged and checked, then the
\* specification is fetched when the input is a path
ConfigLoaded ==
    /\ cpc = "config"
    /\ LET m == Merged(fileConfig, userConfig)
       IN IF InputMissing(m)
          THEN Fail("input not provided") /\ UNCHANGED <<config, clog>>
          ELSE IF OutputMissing(m)
          THEN Fail("output not provided") /\ UNCHANGED <<config, clog>>
          ELSE IF OutputOutside(m)
          THEN Fail("output outside cwd") /\ UNCHANGED <<config, clog>>
          ELSE /\ config' = Resolved(m)
               /\ IF m.input = "path"
                  THEN /\ clog' = Append(clog, "getOpenApiSpec")
                       /\ cpc' = "spec"
                       /\ cresult' = cresult
                  ELSE Generate(clog)
    /\ UNCHANGED <<entry, deps, userConfig, fileConfig>>
    /\ UNCHANGED engineVars

\* loadConfig rejected
ConfigFailed ==
    /\ cpc = "config"
    /\ Fail("loadConfig failed")
    /\ UNCHANGED <<entry, deps, userConfig, fileConfig, config, clog>>
    /\ UNCHANGED engineVars

\* getOpenApiSpec resolved
SpecLoaded ==
    /\ cpc = "spec"
    /\ config' = config
    /\ Generate(clog)
    /\ UNCHANGED <<entry, deps, userConfig, fileConfig>>
    /\ UNCHANGED engineVars

\* getOpenApiSpec rejected
SpecFailed ==
    /\ cpc = "spec"
    /\ Fail("getOpenApiSpec failed")
    /\ UNCHANGED <<entry, deps, userConfig, fileConfig, config, clog>>
    /\ UNCHANGED engineVars

\* writeClient resolved: processOutput runs, the client is returned
ClientWritten ==
    /\ cpc = "write"
    /\ clog' = clog \o ProcessOutput(config)
    /\ cresult' = "client"
    /\ cpc' = "done"
    /\ UNCHANGED <<entry, deps, userConfig, fileConfig, config>>
    /\ UNCHANGED engineVars

\* writeClient rejected
WriteFailed ==
    /\ cpc = "write"
    /\ Fail("writeClient failed")
    /\ UNCHANGED <<entry, deps, userConfig, fileConfig, config, clog>>
    /\ UNCHANGED engineVars

\* ------------------------------------------------------------------ specs
Init == EngineInit /\ ClientIdle

Next ==
    \/ Request
    \/ HeadersResolved
    \/ HeadersRejected
    \/ \E s \in Statuses, h \in BOOLEAN : SendResolved(s, h)
    \/ SendRejected
    \/ FnResolved
    \/ FnRejected
    \/ BodyExtracted
    \/ TransformResolved
    \/ TransformRejected
    \/ Cancel
    \/ \E fn \in Fns : Use(fn)
    \/ \E fn \in Fns : Eject(fn)

Spec == Init /\ [][Next]_vars

\* the engine before any call, with one fixed configuration
EngineIdle ==
    /\ pc = "idle"
    /\ options = [responseHeader |-> FALSE, responseTransformer |-> FALSE,
                  errors |-> <<>>, mode |-> "body"]
    /\ fns = <<>>
    /\ iter = <<>>
    /\ idx = 0
    /\ response = NoResponse
    /\ responseBody = Undefined
    /\ task = [state |-> "pending", value |-> NoValue]
    /\ cancelHandlers = 0
    /\ abortCalls = 0
    /\ log = <<>>
    /\ hist = [cancelPc |-> "none", cancelNoop |-> FALSE, regOps |-> 0, r0 |-> NoResponse,
               thrown |-> NoValue, thrownAt |-> "none", invokedAtThrow |-> 0,
               cancelledAtCheck |-> FALSE, registry |-> <<>>, regPc |-> "none"]

ClientSpecInit == EngineIdle /\ ClientInit

ClientNext ==
    \/ CreateClient
    \/ ConfigLoaded
    \/ ConfigFailed
    \/ SpecLoaded
    \/ SpecFailed
    \/ ClientWritten
    \/ WriteFailed

ClientSpec == ClientSpecInit /\ [][ClientNext]_vars

\* ------------------------------------------------------------------ claims
Dispatches == CountOp(log, "sendRequest")
Resolves == ArgsOf(log, "resolve")
Rejects == ArgsOf(log, "reject")
Invoked == ArgsOf(log, "fn")
Classified == ArgsOf(log, "catchErrorCodes")
ExtractionStarted == CountOp(log, "getResponseBody") > 0

\* the reference the chain is compared with: a left fold of the registry
RECURSIVE FoldLeft(_, _)
FoldLeft(reg, r) ==
    IF reg = <<>> THEN r ELSE FoldLeft(Tail(reg), ApplyFn(Head(reg), r))

\* C1: a task cancelled before dispatch, that is while the executor awaits
\* getHeaders, never has sendRequest invoked for it.
C1_NoDispatchAfterCancel ==
    hist.cancelPc = "headers" => Dispatches = 0

\* C1 witness: the task was cancelled during getHeaders, the executor ran to
\* its end through the pre-dispatch check, and nothing was sent.
C1_Witness ==
    /\ hist.cancelPc = "headers"
    /\ hist.cancelledAtCheck
    /\ pc = "done"
    /\ Dispatches = 0

\* C2 as stated: every finished execution has called resolve or reject exactly
\* once in total, the execution that finds the task cancelled at the
\* pre-dispatch check included.
C2_ExactlyOnceAlways ==
    pc = "done" => Len(Resolves) + Len(Rejects) = 1

\* C2 amended: resolve and reject are called at most once in total, never
\* both; a finished execution that passed the pre-dispatch check (or failed
\* before it) has called exactly one of them once, and one that found the
\* task cancelled at the pre-dispatch check has called neither.
C2_AtMostOnce ==
    /\ Len(Resolves) + Len(Rejects) <= 1
    /\ pc = "done" =>
          Len(Resolves) + Len(Rejects) = (IF hist.cancelledAtCheck THEN 0 ELSE 1)

\* C2 witness: an execution that ended at the pre-dispatch check with neither
\* resolve nor reject called.
C2_Witness ==
    /\ pc = "done"
    /\ hist.cancelledAtCheck
    /\ Resolves = <<>>
    /\ Rejects = <<>>

\* C3: once the chain has run, the response handed to body extraction is the
\* left fold of the registry (as it stood when the chain began) over the
\* transport's response, and the interceptors invoked are exactly the
\* registry's entries, in order, one invocation per occurrence.
C3_LeftFold ==
    ExtractionStarted =>
        /\ response = FoldLeft(hist.registry, hist.r0)
        /\ Invoked = hist.registry

\* C3 witness: a registry of two different interceptors was folded in order.
C3_Witness ==
    /\ ExtractionStarted
    /\ hist.registry = <<"tagB", "tagA">>
    /\ response.body = <<"raw", "B", "A">>

\* C4 as stated: when sendRequest fails or a response interceptor throws, the
\* task is rejected with exactly the thrown value, no later interceptor is
\* invoked, and neither the classifier nor resolve is ever invoked.
C4_TaskRejectedVerbatim ==
    hist.thrownAt \in {"send", "fn"} =>
        /\ task = [state |-> "rejected", value |-> hist.thrown]
        /\ Resolves = <<>>
        /\ Classified = <<>>
        /\ ~ExtractionStarted
        /\ Len(Invoked) = hist.invokedAtThrow

\* C4 amended: when sendRequest fails or a response interceptor throws, the
\* executor calls reject, once, with exactly the thrown value; the task is
\* rejected with it unless it had been cancelled before (as when cancellation
\* aborted the transport call), in which case it stays cancelled; no later
\* interceptor is invoked, and neither the classifier nor resolve is ever
\* invoked.
C4_FailureRejectsVerbatim ==
    hist.thrownAt \in {"send", "fn"} =>
        /\ Rejects = <<hist.thrown>>
        /\ Resolves = <<>>
        /\ Classified = <<>>
        /\ ~ExtractionStarted
        /\ Len(Invoked) = hist.invokedAtThrow
        /\ IF hist.cancelPc = "none"
           THEN task = [state |-> "rejected", value |-> hist.thrown]
           ELSE task.state = "cancelled"

\* C4 witness: the first of two interceptors threw; the task is rejected with
\* what it threw and the second one was never invoked.
C4_Witness ==
    /\ hist.thrownAt = "fn"
    /\ hist.registry = <<"throws", "tagA">>
    /\ Invoked = <<"throws">>
    /\ task = [state |-> "rejected", value |-> Err("InterceptorError")]

RECURSIVE PosOf(_, _, _)
PosOf(l, op, i) ==
    IF i > Len(l) THEN 0
    ELSE IF l[i].op = op THEN i ELSE PosOf(l, op, i + 1)

ExtractionDone == ExtractionStarted /\ pc # "body"
HeaderPresent == options.responseHeader /\ response.hasHeader

\* the transformer runs iff it is configured and the response is ok, once at
\* most, and before the classifier
TransformerRule ==
    /\ CountOp(log, "responseTransformer") <= 1
    /\ ExtractionDone =>
          (CountOp(log, "responseTransformer") = 1
              <=> (options.responseTransformer /\ response.ok))
    /\ ~ExtractionDone => CountOp(log, "responseTransformer") = 0
    /\ Classified # <<>> /\ CountOp(log, "responseTransformer") = 1 =>
          PosOf(log, "responseTransformer", 1) < PosOf(log, "catchErrorCodes", 1)

\* C6 as stated: the transformer is applied iff it is configured and the
\* response is ok, at most once and before classification, and for a non-ok
\* response the body of the ApiResult is the untransformed extracted body.
C6_NonOkBodyIsExtracted ==
    /\ TransformerRule
    /\ \A i \in 1..Len(Classified) :
          ~response.ok => Classified[i].body = GetResponseBody(response)

\* C6 amended: as stated, except that for a non-ok response the body of the
\* ApiResult is the untransformed extracted body only when the designated
\* response header is absent; when it is present the body is the header value.
C6_TransformerIffOk ==
    /\ TransformerRule
    /\ \A i \in 1..Len(Classified) :
          ~response.ok =>
              Classified[i].body =
                  (IF HeaderPresent THEN <<"header-value">> ELSE GetResponseBody(response))

\* C6 witness: a transformer is configured, the response is not ok, and the
\* call was classified without the transformer having run.
C6_Witness ==
    /\ options.responseTransformer
    /\ ~response.ok
    /\ ~HeaderPresent
    /\ Classified # <<>>
    /\ CountOp(log, "responseTransformer") = 0
    /\ Classified[1].body = <<"parsed", "raw">>

\* what line 93 yields without the designated header
BodyWithoutHeader ==
    IF options.responseTransformer /\ response.ok
    THEN Transform(GetResponseBody(response))
    ELSE GetResponseBody(response)

C9_TransitionsFromPendingOnly ==
    [][/\ task'.state \in {"pending", "resolved", "rejected", "cancelled"}
       /\ task.state # "pending" => (task' = task /\ abortCalls' = abortCalls)]_vars

\* C9 witness: the task was cancelled in flight, the aborted transport call
\* failed, the catch block called reject, a second cancel followed, and the
\* task is still cancelled, its cleanup callback having run once.
C9_Witness ==
    /\ task = [state |-> "cancelled", value |-> NoValue]
    /\ hist.cancelPc = "send"
    /\ Rejects = <<Err("AbortError")>>
    /\ hist.cancelNoop
    /\ abortCalls = 1

\* the generation steps and processes createClient has invoked
GenerationSteps ==
    { clog[i] : i \in 1..Len(clog) } \ {"loadConfig"}

\* a precondition the entry point checks is missing: TypeScript among the
\* installed dependencies (checked by the current entry point only), the input,
\* or the output path of the merged configuration
PreconditionMissing ==
    \/ entry = "current" /\ "typescript" \notin deps
    \/ Merged(fileConfig, userConfig).input = "absent"
    \/ Merged(fileConfig, userConfig).output = "absent"

FormatRuns == {"format:prettier", "format:biome"}
LintRuns == {"lint:eslint", "lint:biome"}
Processes == SelectSeq(clog, LAMBDA e : e \in FormatRuns \cup LintRuns)
Called(step) == \E i \in 1..Len(clog) : clog[i] = step

\* what each process needs: the option naming it, and its package installed
ProcessAllowed(p) ==
    CASE p = "format:prettier" ->
            /\ "prettier" \in deps
            /\ config.format = (IF entry = "current" THEN "prettier" ELSE "on")
      [] p = "format:biome" ->
            /\ "@biomejs/biome" \in deps
            /\ entry = "current" /\ config.format = "biome"
      [] p = "lint:eslint" ->
            /\ "eslint" \in deps
            /\ config.lint = (IF entry = "current" THEN "eslint" ELSE "on")
      [] p = "lint:biome" ->
            /\ "@biomejs/biome" \in deps
            /\ entry = "current" /\ config.lint = "biome"
      [] OTHER -> FALSE

\* C11: with writing disabled (dryRun true; write false in the older entry
\* point) createClient, once it has parsed, returns the client without ever
\* invoking writeClient, a formatter or a linter; with writing enabled no
\* formatter or linter runs before writeClient has completed, the formatter
\* runs before the linter, each at most once, and each only if it is
\* configured and its package is among the installed dependencies.
C11_WriteGatesOutput ==
    /\ ~userConfig.write =>
          /\ ~Called("writeClient")
          /\ Processes = <<>>
          /\ Called("parse") <=> (cpc = "done" /\ cresult = "client")
          /\ cpc \notin {"write"}
    /\ userConfig.write =>
          /\ cresult = "client" => (Called("parse") /\ Called("writeClient") /\ cpc = "done")
          /\ Processes # <<>> => (cpc = "done" /\ cresult = "client")
          /\ \A i \in 1..Len(clog) :
                clog[i] \in FormatRuns \cup LintRuns =>
                    /\ \E j \in 1..(i - 1) : clog[j] = "writeClient"
                    /\ ProcessAllowed(clog[i])
          /\ \A i \in 1..Len(Processes), j \in 1..Len(Processes) :
                (Processes[i] \in FormatRuns /\ Processes[j] \in LintRuns) => i < j
          /\ Len(SelectSeq(Processes, LAMBDA e : e \in FormatRuns)) <= 1
          /\ Len(SelectSeq(Processes, LAMBDA e : e \in LintRuns)) <= 1

\* C11 witness: writing is enabled, Prettier and ESLint are configured and
\* installed, and the client was written, then formatted, then linted.
C11_Witness ==
    /\ entry = "current"
    /\ userConfig.write
    /\ cpc = "done"
    /\ cresult = "client"
    /\ clog = <<"loadConfig", "getOpenApiSpec", "parse", "writeClient",
                "format:prettier", "lint:eslint">>

\* a dry run of the older entry point that parsed and returned the client
C11_DryRunReached ==
    /\ entry = "older"
    /\ ~userConfig.write
    /\ cpc = "done"
    /\ cresult = "client"
    /\ clog = <<"loadConfig", "getOpenApiSpec", "parse">>

====
